---- MODULE Spec2Model ----
(***************************************************************************)
(* The DinnerDuty storage layer (server/storage.ts, class MemStorage):     *)
(* three in-memory maps, the start-up sequence that the constructor        *)
(* launches without waiting for it, the mutators of the task-assignment    *)
(* map, the content map, and saveData's three file writes.                 *)
(*                                                                         *)
(* Representation.  A date key is a day number (day n falls on weekday     *)
(* n % 7, 0 = Sunday, as Date.getDay counts).  A shopping item is a        *)
(* sequence of characters, so that trim() is computed and not assumed.     *)
(* randomUUID() is a counter of never-reused ids; ids minted by an         *)
(* earlier run of the process (found in the files) are negative.           *)
(* A node process runs one macrotask at a time: a mutator whose awaits     *)
(* are all on promises that settle without I/O runs to completion before    *)
(* any file callback or other request is served, so it is one action;      *)
(* every await on fs.readFile / fs.writeFile / fs.mkdir ends an action.    *)
(* Under Spec the client awaits each call before it makes the next one;    *)
(* its calls still interleave with the steps of start-up.                  *)
(*                                                                         *)
(* The specifications share the start-up and saveData steps.  Spec: the    *)
(* mutators called directly.  StoreSpec: a client that also reads ranges   *)
(* of dates and calls createOrUpdateTaskAssignment.  RouteSpec: the HTTP   *)
(* routes of the task map, from request body to response, with bodies that *)
(* fail validation and dates that are not dates.  UserSpec: the user map   *)
(* under upsertUser and POST /api/admin/make-admin, with a clock that may  *)
(* move between calls and never runs backwards.  ContentSpec: the content  *)
(* map.  WeekSpec: a run that finds records of the current week on disk.   *)
(* OverlapSpec: a client that does not wait, whose calls meet a running    *)
(* saveData or start in the same turn of the event loop.  AuthSpec: one    *)
(* browser session under either AUTH_MODE and NODE_ENV, with the login     *)
(* routes, the isAuthenticated and isAdmin middlewares                     *)
(* (server/replitAuth.ts) and the admin routes; a request may arrive after *)
(* the session's expires_at.                                               *)
(* returned is the promise of the latest store call: assignTask's stays    *)
(* pending until its saveData has ended.  response is the latest HTTP      *)
(* response; the store's methods leave it to the route that called them.   *)
(***************************************************************************)
EXTENDS Integers, Sequences, FiniteSets, TLC

VARIABLES
    taskAssignments,   \* Map<string, TaskAssignment>
    users,             \* Map<string, User>
    appContent,        \* Map<string, AppContent>
    tasksFile,         \* data/tasks.json
    usersFile,         \* data/users.json
    contentFile,       \* data/content.json
    initPc,            \* position of initializeStorage()
    saves,             \* the saveData() runs in flight
    nextId,            \* randomUUID(): number of ids minted so far
    calls,             \* number of store calls and admitted requests so far
    writeFailed,       \* some fs.writeFile has been rejected
    now,               \* new Date(): the wall clock
    last,              \* the latest call of a mutator and its arguments
    returned,          \* the promise of the latest store call and its value
    response,          \* the latest HTTP response
    session,           \* the user object of the browser's session
    env                \* process.env: AUTH_MODE and NODE_ENV of the run

mapVars  == <<taskAssignments, users, appContent>>
fileVars == <<tasksFile, usersFile, contentFile>>
authVars == <<session, env>>
vars == <<taskAssignments, users, appContent, tasksFile, usersFile,
          contentFile, initPc, saves, nextId, calls, writeFailed, now, last,
          returned, response, session, env>>

----------------------------------------------------------------------------
(* Bounds *)

MaxCalls  == 2     \* store calls per run

----------------------------------------------------------------------------
(* Values *)

Null == "null"

\* the value of a property that was never set, as in claims["email"]
UndefinedText == "undefined"

TaskTypes == {"kok", "indkoeb", "bord", "opvask"}

Residents == {"Anna"}
Dishes    == {"Lasagna"}

Whitespace == {" "}

\* the item texts of the requests: "", " ", "a", " b "
Strings == { <<>>, <<" ">>, <<"a">>, <<" ", "b", " ">> }

\* the lists of the update requests
ItemLists == { <<>>,
               << <<"a">> >>,
               << <<>>, <<" ">>, <<"a">> >>,
               << <<"a">>, <<" ", "b", " ">> >>,
               << <<" ">>, <<" ", "b", " ">>, <<"a">> >> }

Today == 10

DayOfWeek(day) == day % 7

EmptyMap == <<>>

Put(map, key, value) ==
    [k \in DOMAIN map \cup {key} |-> IF k = key THEN value ELSE map[k]]

Remove(map, key) == [k \in DOMAIN map \ {key} |-> map[k]]

\* { ...a, ...b }: the fields of b win
Spread(a, b) ==
    [f \in DOMAIN a \cup DOMAIN b |-> IF f \in DOMAIN b THEN b[f] ELSE a[f]]

----------------------------------------------------------------------------
(* shared/schema.ts *)

getWeekDates(startDate) == [i \in 1..7 |-> startDate + (i - 1)]

getCurrentWeekStart ==
    LET dayOfWeek    == DayOfWeek(Today)
        mondayOffset == IF dayOfWeek = 0 THEN -6 ELSE 1 - dayOfWeek
    IN  Today + mondayOffset

----------------------------------------------------------------------------
(* String.prototype.trim *)

RECURSIVE TrimStart(_)
TrimStart(s) ==
    IF s # <<>> /\ Head(s) \in Whitespace THEN TrimStart(Tail(s)) ELSE s

RECURSIVE TrimEnd(_)
TrimEnd(s) ==
    IF s # <<>> /\ s[Len(s)] \in Whitespace
    THEN TrimEnd(SubSeq(s, 1, Len(s) - 1))
    ELSE s

Trim(s) == TrimEnd(TrimStart(s))

\* item => item.trim().length > 0
NonBlank(item) == Len(Trim(item)) > 0

\* list.filter((_, i) => i !== index), from the element at 0-based position i
RECURSIVE FilterOutIndexFrom(_, _, _)
FilterOutIndexFrom(list, i, index) ==
    IF i >= Len(list) THEN <<>>
    ELSE (IF i # index THEN <<list[i + 1]>> ELSE <<>>)
         \o FilterOutIndexFrom(list, i + 1, index)

FilterOutIndex(list, index) == FilterOutIndexFrom(list, 0, index)

----------------------------------------------------------------------------
(* MemStorage: the task-assignment map *)

EmptyTasks == [t \in TaskTypes |-> Null]

\* a new record that starts with a dish carried over from another day
EmptyAssignmentCopiedDish(date) ==
    [date |-> date, tasks |-> EmptyTasks, aloneInKitchen |-> Null,
     dishOfTheDay |-> "Lasagna", shoppingList |-> <<>>]

\* the object literal every mutator passes to create a missing record
EmptyAssignment(date) ==
    [date |-> date, tasks |-> EmptyTasks, aloneInKitchen |-> Null,
     dishOfTheDay |-> Null, shoppingList |-> <<>>]

\* a ?? b
Coalesce(obj, field, default) ==
    IF field \in DOMAIN obj /\ obj[field] \notin {Null, UndefinedText}
    THEN obj[field]
    ELSE default

CoalesceList(obj, field) ==
    IF field \in DOMAIN obj THEN obj[field] ELSE <<>>

\* createOrUpdateTaskAssignment without the merge over the existing record
createOrUpdateTaskAssignmentNewId(map, uuid, assignment) ==
    Put(map, assignment.date,
        Spread(Spread([id |-> uuid], assignment),
               [aloneInKitchen |-> Coalesce(assignment, "aloneInKitchen", Null),
                dishOfTheDay   |-> Coalesce(assignment, "dishOfTheDay", Null),
                shoppingList   |-> CoalesceList(assignment, "shoppingList")]))

\* createOrUpdateTaskAssignment that replaces the existing record, keeping
\* only its id
createOrUpdateTaskAssignmentReplace(map, uuid, assignment) ==
    Put(map, assignment.date,
        Spread(Spread([id |-> IF assignment.date \in DOMAIN map
                              THEN map[assignment.date].id ELSE uuid],
                      assignment),
               [aloneInKitchen |-> Coalesce(assignment, "aloneInKitchen", Null),
                dishOfTheDay   |-> Coalesce(assignment, "dishOfTheDay", Null),
                shoppingList   |-> CoalesceList(assignment, "shoppingList")]))

\* the map after createOrUpdateTaskAssignment(assignment); uuid is the id
\* randomUUID() returns if the call mints one.  The record returned is the
\* one stored under assignment.date.
createOrUpdateTaskAssignment(map, uuid, assignment) ==
    IF assignment.date \in DOMAIN map
    THEN Put(map, assignment.date, Spread(map[assignment.date], assignment))
    ELSE Put(map, assignment.date,
             Spread(Spread([id |-> uuid], assignment),
                    [aloneInKitchen |-> Coalesce(assignment, "aloneInKitchen", Null),
                     dishOfTheDay   |-> Coalesce(assignment, "dishOfTheDay", Null),
                     shoppingList   |-> CoalesceList(assignment, "shoppingList")]))

\* taskAssignments.get(date): the record, or undefined
Undefined == [undefined |-> TRUE]

getTaskAssignmentByDate(map, date) ==
    IF date \in DOMAIN map THEN map[date] ELSE Undefined

\* a range read that leaves out the dates without a record
RECURSIVE getTaskAssignmentsByDateRangeStoredOnly(_, _, _)
getTaskAssignmentsByDateRangeStoredOnly(map, minted, dates) ==
    IF dates = <<>> THEN <<>>
    ELSE LET date == Head(dates)
         IN  IF date \in DOMAIN map
             THEN <<map[date]>>
                  \o getTaskAssignmentsByDateRangeStoredOnly(map, minted,
                                                             Tail(dates))
             ELSE getTaskAssignmentsByDateRangeStoredOnly(map, minted,
                                                          Tail(dates))

\* the array getTaskAssignmentsByDateRange(dates) returns; minted is the
\* number of ids minted before the call
RECURSIVE getTaskAssignmentsByDateRange(_, _, _)
getTaskAssignmentsByDateRange(map, minted, dates) ==
    IF dates = <<>> THEN <<>>
    ELSE LET date == Head(dates)
         IN  IF date \in DOMAIN map
             THEN <<map[date]>>
                  \o getTaskAssignmentsByDateRange(map, minted, Tail(dates))
             ELSE <<[id |-> minted + 1, date |-> date, tasks |-> EmptyTasks,
                     aloneInKitchen |-> Null, dishOfTheDay |-> Null,
                     shoppingList |-> <<>>]>>
                  \o getTaskAssignmentsByDateRange(map, minted + 1,
                                                   Tail(dates))

\* the number of randomUUID() calls of that range read
RangeMinted(map, dates) ==
    Len(SelectSeq(dates, LAMBDA date : date \notin DOMAIN map))

\* let existing = get(date); if (!existing) existing = createOrUpdate({...})
EnsureExisting(map, uuid, date) ==
    IF date \in DOMAIN map THEN map
    ELSE createOrUpdateTaskAssignment(map, uuid, EmptyAssignment(date))

\* assignTask that starts from an empty tasks object
assignTaskMapFreshTasks(map, uuid, date, taskType, resident) ==
    LET m1           == EnsureExisting(map, uuid, date)
        existing     == m1[date]
        updatedTasks == Put(EmptyTasks, taskType, resident)
    IN  createOrUpdateTaskAssignment(m1, uuid,
            [date |-> date, tasks |-> updatedTasks,
             aloneInKitchen |-> existing.aloneInKitchen,
             dishOfTheDay |-> existing.dishOfTheDay,
             shoppingList |-> existing.shoppingList])

assignTaskMap(map, uuid, date, taskType, resident) ==
    LET m1           == EnsureExisting(map, uuid, date)
        existing     == m1[date]
        updatedTasks == Put(existing.tasks, taskType, resident)
    IN  createOrUpdateTaskAssignment(m1, uuid,
            [date |-> date, tasks |-> updatedTasks,
             aloneInKitchen |-> existing.aloneInKitchen,
             dishOfTheDay |-> existing.dishOfTheDay,
             shoppingList |-> existing.shoppingList])

setAloneInKitchenMap(map, uuid, date, resident) ==
    LET m1       == EnsureExisting(map, uuid, date)
        existing == m1[date]
    IN  createOrUpdateTaskAssignment(m1, uuid,
            [date |-> date, tasks |-> existing.tasks,
             aloneInKitchen |-> resident,
             dishOfTheDay |-> existing.dishOfTheDay,
             shoppingList |-> existing.shoppingList])

\* setDishOfTheDay that passes shoppingList: []
setDishOfTheDayMapDropsList(map, uuid, date, dish) ==
    LET m1       == EnsureExisting(map, uuid, date)
        existing == m1[date]
    IN  createOrUpdateTaskAssignment(m1, uuid,
            [date |-> date, tasks |-> existing.tasks,
             aloneInKitchen |-> existing.aloneInKitchen,
             dishOfTheDay |-> dish,
             shoppingList |-> <<>>])

setDishOfTheDayMap(map, uuid, date, dish) ==
    LET m1       == EnsureExisting(map, uuid, date)
        existing == m1[date]
    IN  createOrUpdateTaskAssignment(m1, uuid,
            [date |-> date, tasks |-> existing.tasks,
             aloneInKitchen |-> existing.aloneInKitchen,
             dishOfTheDay |-> dish,
             shoppingList |-> existing.shoppingList])

\* resetTasks that names only tasks and aloneInKitchen
resetTasksMapTasksOnly(map, uuid, date) ==
    createOrUpdateTaskAssignment(map, uuid,
        [date |-> date, tasks |-> EmptyTasks, aloneInKitchen |-> Null])

resetTasksMap(map, uuid, date) ==
    createOrUpdateTaskAssignment(map, uuid, EmptyAssignment(date))

\* addShoppingItem that appends the item as given
addShoppingItemMapNoTrim(map, uuid, date, item) ==
    LET m1          == EnsureExisting(map, uuid, date)
        existing    == m1[date]
        currentList == existing.shoppingList
        updatedList == currentList \o <<item>>
    IN  createOrUpdateTaskAssignment(m1, uuid,
            [date |-> date, tasks |-> existing.tasks,
             aloneInKitchen |-> existing.aloneInKitchen,
             dishOfTheDay |-> existing.dishOfTheDay,
             shoppingList |-> updatedList])

addShoppingItemMap(map, uuid, date, item) ==
    LET m1          == EnsureExisting(map, uuid, date)
        existing    == m1[date]
        currentList == existing.shoppingList
        updatedList == currentList \o <<Trim(item)>>
    IN  createOrUpdateTaskAssignment(m1, uuid,
            [date |-> date, tasks |-> existing.tasks,
             aloneInKitchen |-> existing.aloneInKitchen,
             dishOfTheDay |-> existing.dishOfTheDay,
             shoppingList |-> updatedList])

\* removeShoppingItem by splice(index, 1), which counts a negative index
\* from the end of the list
removeShoppingItemMapSplice(map, uuid, date, index) ==
    LET m1          == EnsureExisting(map, uuid, date)
        existing    == m1[date]
        currentList == existing.shoppingList
        at          == IF index < 0 THEN Len(currentList) + index ELSE index
        updatedList == FilterOutIndex(currentList, at)
    IN  createOrUpdateTaskAssignment(m1, uuid,
            [date |-> date, tasks |-> existing.tasks,
             aloneInKitchen |-> existing.aloneInKitchen,
             dishOfTheDay |-> existing.dishOfTheDay,
             shoppingList |-> updatedList])

removeShoppingItemMap(map, uuid, date, index) ==
    LET m1          == EnsureExisting(map, uuid, date)
        existing    == m1[date]
        currentList == existing.shoppingList
        updatedList == FilterOutIndex(currentList, index)
    IN  createOrUpdateTaskAssignment(m1, uuid,
            [date |-> date, tasks |-> existing.tasks,
             aloneInKitchen |-> existing.aloneInKitchen,
             dishOfTheDay |-> existing.dishOfTheDay,
             shoppingList |-> updatedList])

\* updateShoppingList that stores the surviving items trimmed
updateShoppingListMapTrims(map, uuid, date, items) ==
    LET m1       == EnsureExisting(map, uuid, date)
        existing == m1[date]
        trimmed  == [i \in 1..Len(items) |-> Trim(items[i])]
    IN  createOrUpdateTaskAssignment(m1, uuid,
            [date |-> date, tasks |-> existing.tasks,
             aloneInKitchen |-> existing.aloneInKitchen,
             dishOfTheDay |-> existing.dishOfTheDay,
             shoppingList |-> SelectSeq(trimmed, NonBlank)])

updateShoppingListMap(map, uuid, date, items) ==
    LET m1       == EnsureExisting(map, uuid, date)
        existing == m1[date]
    IN  createOrUpdateTaskAssignment(m1, uuid,
            [date |-> date, tasks |-> existing.tasks,
             aloneInKitchen |-> existing.aloneInKitchen,
             dishOfTheDay |-> existing.dishOfTheDay,
             shoppingList |-> SelectSeq(items, NonBlank)])

----------------------------------------------------------------------------
(* MemStorage: the user map *)

\* a || b takes b for "", null and undefined
Truthy(text) == text \notin {"", Null, UndefinedText}

\* upsertUser whose update branch builds the record as the create branch does
upsertUserMapNewCreatedAt(map, uuid, clock, userData) ==
    LET userId == IF "id" \in DOMAIN userData /\ Truthy(userData.id)
                  THEN userData.id ELSE ToString(uuid)
    IN  IF userId \in DOMAIN map
        THEN Put(map, userId,
                 Spread(Spread(map[userId], userData),
                        [id |-> userId, createdAt |-> clock,
                         updatedAt |-> clock]))
        ELSE Put(map, userId,
                 [id |-> userId,
                  email |-> Coalesce(userData, "email", Null),
                  firstName |-> Coalesce(userData, "firstName", Null),
                  lastName |-> Coalesce(userData, "lastName", Null),
                  profileImageUrl |-> Coalesce(userData, "profileImageUrl", Null),
                  isAdmin |-> IF "isAdmin" \in DOMAIN userData
                              THEN userData.isAdmin ELSE FALSE,
                  createdAt |-> clock,
                  updatedAt |-> clock])

\* the map after upsertUser(userData) at time clock; uuid is the id
\* randomUUID() returns if userData has none
upsertUserMap(map, uuid, clock, userData) ==
    LET userId == IF "id" \in DOMAIN userData /\ Truthy(userData.id)
                  THEN userData.id ELSE ToString(uuid)
    IN  IF userId \in DOMAIN map
        THEN Put(map, userId,
                 Spread(Spread(map[userId], userData),
                        [id |-> userId, updatedAt |-> clock]))
        ELSE Put(map, userId,
                 [id |-> userId,
                  email |-> Coalesce(userData, "email", Null),
                  firstName |-> Coalesce(userData, "firstName", Null),
                  lastName |-> Coalesce(userData, "lastName", Null),
                  profileImageUrl |-> Coalesce(userData, "profileImageUrl", Null),
                  isAdmin |-> IF "isAdmin" \in DOMAIN userData
                              THEN userData.isAdmin ELSE FALSE,
                  createdAt |-> clock,
                  updatedAt |-> clock])

\* the id of the record upsertUser(userData) stores
upsertUserId(uuid, userData) ==
    IF "id" \in DOMAIN userData /\ Truthy(userData.id)
    THEN userData.id ELSE ToString(uuid)

----------------------------------------------------------------------------
(* MemStorage: default content and the current week *)

DefaultKeys == {"app.title", "instructions.how_to_use",
                "instructions.assign_tasks", "instructions.auto_save",
                "notice.dishwashing_requirement"}

\* Object.entries(defaultContent), in insertion order
DefaultKeyOrder == <<"app.title", "instructions.how_to_use",
                     "instructions.assign_tasks", "instructions.auto_save",
                     "notice.dishwashing_requirement">>

\* the hard-coded texts, abbreviated
defaultContent ==
    [key \in DefaultKeys |->
        [value |-> <<"default value", key>>,
         description |-> <<"default description", key>>]]

\* for (const [key, ...] of Object.entries(defaultContent)) appContent.set(...)
RECURSIVE initializeDefaultContentFrom(_, _, _, _)
initializeDefaultContentFrom(content, minted, clock, i) ==
    IF i > Len(DefaultKeyOrder) THEN content
    ELSE LET key == DefaultKeyOrder[i]
         IN  initializeDefaultContentFrom(
                 Put(content, key,
                     [id |-> minted + 1, key |-> key,
                      value |-> defaultContent[key].value,
                      description |-> defaultContent[key].description,
                      updatedAt |-> clock]),
                 minted + 1, clock, i + 1)

initializeDefaultContent(content, minted, clock) ==
    initializeDefaultContentFrom(content, minted, clock, 1)

\* for (const date of weekDates) if (!taskAssignments.has(date)) set(date, empty)
RECURSIVE ensureCurrentWeekDataFrom(_, _, _, _)
ensureCurrentWeekDataFrom(map, minted, weekDates, i) ==
    IF i > Len(weekDates) THEN [map |-> map, minted |-> minted]
    ELSE LET date == weekDates[i]
         IN  IF date \in DOMAIN map
             THEN ensureCurrentWeekDataFrom(map, minted, weekDates, i + 1)
             ELSE ensureCurrentWeekDataFrom(
                      Put(map, date,
                          [id |-> minted + 1, date |-> date,
                           tasks |-> EmptyTasks, aloneInKitchen |-> Null,
                           dishOfTheDay |-> Null, shoppingList |-> <<>>]),
                      minted + 1, weekDates, i + 1)

\* ensureCurrentWeekData over the week that starts on Sunday
ensureCurrentWeekDataSundayStart(map, minted) ==
    ensureCurrentWeekDataFrom(map, minted,
                              getWeekDates(Today - DayOfWeek(Today)), 1)

ensureCurrentWeekData(map, minted) ==
    ensureCurrentWeekDataFrom(map, minted, getWeekDates(getCurrentWeekStart), 1)

----------------------------------------------------------------------------
(* The files and the state after construction *)

NoFile == [exists |-> FALSE, data |-> EmptyMap]

FileOf(map) == [exists |-> TRUE, data |-> map]

\* the date the requests of a run name: the Monday after the current week
InputDates == {getCurrentWeekStart + 7}

\* the task kinds the requests of a run name
InputTaskTypes == {"kok", "opvask"}

\* what an earlier run left on disk: that Monday planned, and a title the
\* admin has edited
EarlierTasks ==
    (getCurrentWeekStart + 7) :>
        [id |-> -1, date |-> getCurrentWeekStart + 7,
         tasks |-> Put(EmptyTasks, "kok", "Anna"),
         aloneInKitchen |-> Null, dishOfTheDay |-> "Lasagna",
         shoppingList |-> << <<"a">> >>]

\* a user of an earlier run, who logged in through OIDC; the times of an
\* earlier run are below zero
EarlierUsers ==
    "u1" :> [id |-> "u1", email |-> "a@x", firstName |-> "Ann",
             lastName |-> Null, profileImageUrl |-> Null, isAdmin |-> FALSE,
             createdAt |-> -5, updatedAt |-> -3]

EarlierContent ==
    [key \in DefaultKeys |->
        [id |-> -2, key |-> key,
         value |-> IF key = "app.title" THEN <<"edited", key>>
                   ELSE defaultContent[key].value,
         description |-> defaultContent[key].description,
         updatedAt |-> 0]]

\* the callers of saveData
SaveIds == {"initializeStorage", "assignTask"}

Idle == [stage |-> "idle", data |-> EmptyMap]

NoCall == [op |-> "none", date |-> 0, arg |-> 0, fresh |-> FALSE]

\* no promise yet, and the promise of a call: pending, then fulfilled with
\* its value or rejected
NoPromise == [op |-> "none", status |-> "none", value |-> 0]

Pending(op, value) == [op |-> op, status |-> "pending", value |-> value]

Fulfilled(op, value) == [op |-> op, status |-> "fulfilled", value |-> value]

\* an HTTP request, and the response to it: status 0 until it is sent
NoRequest == [route |-> "none", body |-> <<>>]

Request(route, body) == [route |-> route, body |-> body]

NoResponse == [status |-> 0, body |-> 0, request |-> NoRequest]

Awaiting(route, body) ==
    [status |-> 0, body |-> 0, request |-> Request(route, body)]

Json(route, body, value) ==
    [status |-> 200, body |-> value, request |-> Request(route, body)]

BadRequest(route, body) ==
    [status |-> 400, body |-> "Invalid request data",
     request |-> Request(route, body)]

Call(op, date, arg) ==
    [op |-> op, date |-> date, arg |-> arg,
     fresh |-> date \notin DOMAIN taskAssignments]

\* process.env.AUTH_MODE and process.env.NODE_ENV of a run outside Replit
AUTH_MODE == "basic"

NODE_ENV == "production"

\* a browser that has not logged in: req.session.user and req.user are
\* undefined
NoSession == [kind |-> "none"]

Init ==
    /\ taskAssignments = EmptyMap
    /\ users = EmptyMap
    /\ appContent = EmptyMap
    /\ \/ /\ tasksFile = NoFile
          /\ usersFile = NoFile
          /\ contentFile = NoFile
       \/ /\ tasksFile = FileOf(EarlierTasks)
          /\ usersFile = FileOf(EmptyMap)
          /\ contentFile = FileOf(EarlierContent)
    /\ initPc = "mkdir"
    /\ saves = [s \in SaveIds |-> Idle]
    /\ nextId = 0
    /\ calls = 0
    /\ writeFailed = FALSE
    /\ now = 0
    /\ last = NoCall
    /\ returned = NoPromise
    /\ response = NoResponse
    /\ session = NoSession
    /\ env = [AUTH_MODE |-> AUTH_MODE, NODE_ENV |-> NODE_ENV]

----------------------------------------------------------------------------
(* initializeStorage, loadData, saveData *)

\* await fs.mkdir(dataDir)
InitMkdir ==
    /\ initPc = "mkdir"
    /\ initPc' = "readTasks"
    /\ UNCHANGED <<mapVars, fileVars, saves, nextId, calls, writeFailed, now,
                   last, returned, response, authVars>>

\* await fs.readFile(tasksPath); a missing file leaves the map as it is
InitReadTasks ==
    /\ initPc = "readTasks"
    /\ taskAssignments' = IF tasksFile.exists THEN tasksFile.data
                          ELSE taskAssignments
    /\ initPc' = "readUsers"
    /\ UNCHANGED <<users, appContent, fileVars, saves, nextId, calls,
                   writeFailed, now, last, returned, response, authVars>>

InitReadUsers ==
    /\ initPc = "readUsers"
    /\ users' = IF usersFile.exists THEN usersFile.data ELSE users
    /\ initPc' = "readContent"
    /\ UNCHANGED <<taskAssignments, appContent, fileVars, saves, nextId,
                   calls, writeFailed, now, last, returned, response, authVars>>

\* await fs.readFile(contentPath), then without a pause the default content,
\* the current week and the first write of saveData
InitReadContent ==
    /\ initPc = "readContent"
    /\ LET loaded == IF contentFile.exists THEN contentFile.data
                     ELSE appContent
           seeded == initializeDefaultContent(loaded, nextId, now)
           week   == ensureCurrentWeekData(taskAssignments,
                                           nextId + Len(DefaultKeyOrder))
       IN  /\ appContent' = seeded
           /\ taskAssignments' = week.map
           /\ nextId' = week.minted
           /\ saves' = [saves EXCEPT !["initializeStorage"] =
                           [stage |-> "tasks", data |-> week.map]]
    /\ initPc' = "saving"
    /\ UNCHANGED <<users, fileVars, calls, writeFailed, now, last,
                   returned, response, authVars>>

\* the promise of the caller of saveData once saveData has ended: assignTask
\* goes on to return updatedAssignment
AfterSave(s, promise) ==
    IF s = "assignTask" /\ promise.status = "pending"
    THEN Fulfilled(promise.op, promise.value)
    ELSE promise

\* res.json(assignment) of the route that awaited the call
ResponseAfterSave(s, promise, resp) ==
    IF /\ s = "assignTask"
       /\ promise.status = "pending"
       /\ resp.request.route # "none"
       /\ resp.status = 0
    THEN Json(resp.request.route, resp.request.body, promise.value)
    ELSE resp

\* an fs.writeFile of saveData completes and the next one is issued
SaveWrite(s) ==
    /\ saves[s].stage # "idle"
    /\ \/ /\ saves[s].stage = "tasks"
          /\ tasksFile' = FileOf(saves[s].data)
          /\ saves' = [saves EXCEPT ![s] = [stage |-> "users", data |-> users]]
          /\ UNCHANGED <<usersFile, contentFile, initPc, returned, response>>
       \/ /\ saves[s].stage = "users"
          /\ usersFile' = FileOf(saves[s].data)
          /\ saves' = [saves EXCEPT ![s] =
                          [stage |-> "content", data |-> appContent]]
          /\ UNCHANGED <<tasksFile, contentFile, initPc, returned, response>>
       \/ /\ saves[s].stage = "content"
          /\ contentFile' = FileOf(saves[s].data)
          /\ saves' = [saves EXCEPT ![s] = Idle]
          /\ initPc' = IF s = "initializeStorage" THEN "done" ELSE initPc
          /\ returned' = AfterSave(s, returned)
          /\ response' = ResponseAfterSave(s, returned, response)
          /\ UNCHANGED <<tasksFile, usersFile>>
    /\ UNCHANGED <<mapVars, nextId, calls, writeFailed, now, last, authVars>>

\* an fs.writeFile is rejected: the catch logs it and saveData ends
SaveFail(s) ==
    /\ saves[s].stage # "idle"
    /\ saves' = [saves EXCEPT ![s] = Idle]
    /\ initPc' = IF s = "initializeStorage" THEN "done" ELSE initPc
    /\ writeFailed' = TRUE
    /\ returned' = AfterSave(s, returned)
    /\ response' = ResponseAfterSave(s, returned, response)
    /\ UNCHANGED <<mapVars, fileVars, nextId, calls, now, last, authVars>>

----------------------------------------------------------------------------
(* The mutators of the task-assignment map *)

Minted(date) == IF date \in DOMAIN taskAssignments THEN nextId ELSE nextId + 1

\* the client makes one call at a time: the promise of its previous call,
\* which assignTask settles only after saveData, has settled
CanCall ==
    /\ calls < MaxCalls
    /\ saves["assignTask"].stage = "idle"

\* The actions of the store's methods say nothing about response, which is
\* their caller's: Next calls them with no HTTP request, each route below
\* answers one.

\* only assignTask ends with await this.saveData()
assignTask(date, taskType, resident) ==
    /\ CanCall
    /\ LET map == assignTaskMap(taskAssignments, nextId + 1, date,
                                taskType, resident)
       IN  /\ taskAssignments' = map
           /\ saves' = [saves EXCEPT !["assignTask"] =
                           [stage |-> "tasks", data |-> map]]
    /\ nextId' = Minted(date)
    /\ calls' = calls + 1
    /\ last' = Call("assignTask", date, <<taskType, resident>>)
    /\ returned' = Pending("assignTask", taskAssignments'[date])
    /\ UNCHANGED <<users, appContent, fileVars, initPc, writeFailed, now>>

setAloneInKitchen(date, resident) ==
    /\ CanCall
    /\ taskAssignments' = setAloneInKitchenMap(taskAssignments, nextId + 1,
                                               date, resident)
    /\ nextId' = Minted(date)
    /\ calls' = calls + 1
    /\ last' = Call("setAloneInKitchen", date, resident)
    /\ returned' = Fulfilled("setAloneInKitchen", taskAssignments'[date])
    /\ UNCHANGED <<users, appContent, fileVars, initPc, saves, writeFailed,
                   now>>

setDishOfTheDay(date, dish) ==
    /\ CanCall
    /\ taskAssignments' = setDishOfTheDayMap(taskAssignments, nextId + 1,
                                             date, dish)
    /\ nextId' = Minted(date)
    /\ calls' = calls + 1
    /\ last' = Call("setDishOfTheDay", date, dish)
    /\ returned' = Fulfilled("setDishOfTheDay", taskAssignments'[date])
    /\ UNCHANGED <<users, appContent, fileVars, initPc, saves, writeFailed,
                   now>>

resetTasks(date) ==
    /\ CanCall
    /\ taskAssignments' = resetTasksMap(taskAssignments, nextId + 1, date)
    /\ nextId' = Minted(date)
    /\ calls' = calls + 1
    /\ last' = Call("resetTasks", date, 0)
    /\ returned' = Fulfilled("resetTasks", taskAssignments'[date])
    /\ UNCHANGED <<users, appContent, fileVars, initPc, saves, writeFailed,
                   now>>

addShoppingItem(date, item) ==
    /\ CanCall
    /\ taskAssignments' = addShoppingItemMap(taskAssignments, nextId + 1,
                                             date, item)
    /\ nextId' = Minted(date)
    /\ calls' = calls + 1
    /\ last' = Call("addShoppingItem", date, item)
    /\ returned' = Fulfilled("addShoppingItem", taskAssignments'[date])
    /\ UNCHANGED <<users, appContent, fileVars, initPc, saves, writeFailed,
                   now>>

removeShoppingItem(date, index) ==
    /\ CanCall
    /\ taskAssignments' = removeShoppingItemMap(taskAssignments, nextId + 1,
                                                date, index)
    /\ nextId' = Minted(date)
    /\ calls' = calls + 1
    /\ last' = Call("removeShoppingItem", date, index)
    /\ returned' = Fulfilled("removeShoppingItem", taskAssignments'[date])
    /\ UNCHANGED <<users, appContent, fileVars, initPc, saves, writeFailed,
                   now>>

updateShoppingList(date, items) ==
    /\ CanCall
    /\ taskAssignments' = updateShoppingListMap(taskAssignments, nextId + 1,
                                                date, items)
    /\ nextId' = Minted(date)
    /\ calls' = calls + 1
    /\ last' = Call("updateShoppingList", date, items)
    /\ returned' = Fulfilled("updateShoppingList", taskAssignments'[date])
    /\ UNCHANGED <<users, appContent, fileVars, initPc, saves, writeFailed,
                   now>>

\* the indexes of the remove requests
Indexes == {-1, 0, 1, 2, 5}

\* the payloads of the direct calls of createOrUpdateTaskAssignment: one
\* that names only date and tasks, one that omits dishOfTheDay
InputAssignments ==
    {[date |-> getCurrentWeekStart + 7,
      tasks |-> Put(EmptyTasks, "bord", "Anna")],
     [date |-> getCurrentWeekStart + 7, tasks |-> EmptyTasks,
      aloneInKitchen |-> "Anna", shoppingList |-> << <<"b">> >>]}

createOrUpdateTaskAssignmentCall(assignment) ==
    /\ CanCall
    /\ taskAssignments' = createOrUpdateTaskAssignment(taskAssignments,
                                                       nextId + 1, assignment)
    /\ nextId' = Minted(assignment.date)
    /\ calls' = calls + 1
    /\ last' = Call("createOrUpdateTaskAssignment", assignment.date,
                    assignment)
    /\ returned' = Fulfilled("createOrUpdateTaskAssignment",
                             taskAssignments'[assignment.date])
    /\ UNCHANGED <<users, appContent, fileVars, initPc, saves, writeFailed,
                   now>>

\* the date lists of the range reads: next week, and a list out of order
InputRanges == {getWeekDates(getCurrentWeekStart + 7),
                <<getCurrentWeekStart + 8, getCurrentWeekStart,
                  getCurrentWeekStart + 7>>}

\* a read: the maps stay as they are
readTaskAssignmentsByDateRange(dates) ==
    /\ CanCall
    /\ returned' = Fulfilled("getTaskAssignmentsByDateRange",
                             getTaskAssignmentsByDateRange(taskAssignments,
                                                           nextId, dates))
    /\ nextId' = nextId + RangeMinted(taskAssignments, dates)
    /\ calls' = calls + 1
    /\ last' = [op |-> "getTaskAssignmentsByDateRange", date |-> 0,
                arg |-> dates, fresh |-> FALSE]
    /\ UNCHANGED <<mapVars, fileVars, initPc, saves, writeFailed, now>>

Next ==
    \/ InitMkdir
    \/ InitReadTasks
    \/ InitReadUsers
    \/ InitReadContent
    \/ \E s \in SaveIds : SaveWrite(s)
    \/ \E s \in SaveIds : SaveFail(s)
    \/ \E d \in InputDates, t \in InputTaskTypes, r \in Residents \cup {Null} :
          assignTask(d, t, r) /\ UNCHANGED <<response, authVars>>
    \/ \E d \in InputDates, r \in Residents \cup {Null} :
          setAloneInKitchen(d, r) /\ UNCHANGED <<response, authVars>>
    \/ \E d \in InputDates, dish \in Dishes \cup {Null} :
          setDishOfTheDay(d, dish) /\ UNCHANGED <<response, authVars>>
    \/ \E d \in InputDates : resetTasks(d) /\ UNCHANGED <<response, authVars>>
    \/ \E d \in InputDates, item \in Strings :
          addShoppingItem(d, item) /\ UNCHANGED <<response, authVars>>
    \/ \E d \in InputDates, i \in Indexes :
          removeShoppingItem(d, i) /\ UNCHANGED <<response, authVars>>
    \/ \E d \in InputDates, items \in ItemLists :
          updateShoppingList(d, items) /\ UNCHANGED <<response, authVars>>

Spec == Init /\ [][Next]_vars

\* a client that also reads ranges of dates and calls
\* createOrUpdateTaskAssignment itself
StoreNext ==
    \/ InitMkdir
    \/ InitReadTasks
    \/ InitReadUsers
    \/ InitReadContent
    \/ \E s \in SaveIds : SaveWrite(s)
    \/ \E s \in SaveIds : SaveFail(s)
    \/ \E d \in InputDates, t \in InputTaskTypes, r \in Residents \cup {Null} :
          assignTask(d, t, r) /\ UNCHANGED <<response, authVars>>
    \/ \E d \in InputDates : resetTasks(d) /\ UNCHANGED <<response, authVars>>
    \/ \E d \in InputDates, items \in ItemLists :
          updateShoppingList(d, items) /\ UNCHANGED <<response, authVars>>
    \/ \E dates \in InputRanges :
          readTaskAssignmentsByDateRange(dates) /\ UNCHANGED <<response, authVars>>
    \/ \E assignment \in InputAssignments :
          createOrUpdateTaskAssignmentCall(assignment) /\ UNCHANGED <<response, authVars>>

StoreSpec == Init /\ [][StoreNext]_vars

----------------------------------------------------------------------------
(* The HTTP routes of the task map (server/routes.ts) *)

\* The date texts of the request bodies.  A day number stands for the
\* YYYY-MM-DD text of that day; the texts that are not dates, and a JSON
\* value that is not a string, are numbered below zero.
EmptyText   == -1     \* ""
FooText     == -2     \* "foo"
NumberValue == -3     \* 5

IsString(value) == value # NumberValue

IsYMD(date) == date >= 0

\* new Date().toISOString().split('T')[0]
getCurrentDate == Today

\* const { date = getCurrentDate(), ... } = schema.parse(req.body)
DateOf(body) == IF "date" \in DOMAIN body THEN body.date ELSE getCurrentDate

\* date: z.string().optional()
DateSchema(body) == "date" \in DOMAIN body => IsString(body.date)

\* an assign schema whose taskType is z.string()
AssignSchemaAnyString(body) ==
    /\ DateSchema(body)
    /\ "taskType" \in DOMAIN body
    /\ "resident" \in DOMAIN body

\* taskType: z.enum(['kok', 'indkoeb', 'bord', 'opvask']),
\* resident: z.string().nullable()
AssignSchema(body) ==
    /\ DateSchema(body)
    /\ "taskType" \in DOMAIN body
    /\ body.taskType \in TaskTypes
    /\ "resident" \in DOMAIN body

KitchenPreferenceSchema(body) == DateSchema(body) /\ "resident" \in DOMAIN body

DishOfTheDaySchema(body) == DateSchema(body) /\ "dish" \in DOMAIN body

ResetSchema(body) == DateSchema(body)

AddSchema(body) == DateSchema(body) /\ "item" \in DOMAIN body

RemoveSchema(body) == DateSchema(body) /\ "index" \in DOMAIN body

UpdateSchema(body) == DateSchema(body) /\ "items" \in DOMAIN body

\* catch (error) { if (error instanceof z.ZodError) res.status(400) }: the
\* store has not been called
Reject(route, body) ==
    /\ CanCall
    /\ response' = BadRequest(route, body)
    /\ UNCHANGED <<mapVars, fileVars, initPc, saves, nextId, calls,
                   writeFailed, now, last, returned>>

PostAssign(body) ==
    IF AssignSchema(body)
    THEN /\ assignTask(DateOf(body), body.taskType, body.resident)
         /\ response' = Awaiting("POST /api/tasks/assign", body)
    ELSE Reject("POST /api/tasks/assign", body)

PostKitchenPreference(body) ==
    IF KitchenPreferenceSchema(body)
    THEN /\ setAloneInKitchen(DateOf(body), body.resident)
         /\ response' = Json("POST /api/tasks/kitchen-preference", body,
                             returned'.value)
    ELSE Reject("POST /api/tasks/kitchen-preference", body)

PostDishOfTheDay(body) ==
    IF DishOfTheDaySchema(body)
    THEN /\ setDishOfTheDay(DateOf(body), body.dish)
         /\ response' = Json("POST /api/tasks/dish-of-the-day", body,
                             returned'.value)
    ELSE Reject("POST /api/tasks/dish-of-the-day", body)

PostReset(body) ==
    IF ResetSchema(body)
    THEN /\ resetTasks(DateOf(body))
         /\ response' = Json("POST /api/tasks/reset", body, returned'.value)
    ELSE Reject("POST /api/tasks/reset", body)

PostShoppingListAdd(body) ==
    IF AddSchema(body)
    THEN /\ addShoppingItem(DateOf(body), body.item)
         /\ response' = Json("POST /api/shopping-list/add", body,
                             returned'.value)
    ELSE Reject("POST /api/shopping-list/add", body)

PostShoppingListRemove(body) ==
    IF RemoveSchema(body)
    THEN /\ removeShoppingItem(DateOf(body), body.index)
         /\ response' = Json("POST /api/shopping-list/remove", body,
                             returned'.value)
    ELSE Reject("POST /api/shopping-list/remove", body)

PostShoppingListUpdate(body) ==
    IF UpdateSchema(body)
    THEN /\ updateShoppingList(DateOf(body), body.items)
         /\ response' = Json("POST /api/shopping-list/update", body,
                             returned'.value)
    ELSE Reject("POST /api/shopping-list/update", body)

\* GET /api/tasks/:date?: const date = req.params.date || getCurrentDate();
\* a date without a record is answered with an object literal
GetTasks(params) ==
    LET date       == IF "date" \in DOMAIN params /\ params.date # EmptyText
                      THEN params.date ELSE getCurrentDate
        assignment == getTaskAssignmentByDate(taskAssignments, date)
    IN  /\ CanCall
        /\ calls' = calls + 1
        /\ last' = [op |-> "getTaskAssignmentByDate", date |-> date,
                    arg |-> params, fresh |-> date \notin DOMAIN taskAssignments]
        /\ returned' = Fulfilled("getTaskAssignmentByDate", assignment)
        /\ response' =
              Json("GET /api/tasks/:date?", params,
                   IF assignment = Undefined
                   THEN [date |-> date, tasks |-> EmptyTasks,
                         aloneInKitchen |-> Null, dishOfTheDay |-> Null]
                   ELSE assignment)
        /\ UNCHANGED <<mapVars, fileVars, initPc, saves, nextId, writeFailed,
                       now>>

\* the request bodies of a run; NextMonday is the date the client plans
NextMonday == getCurrentWeekStart + 7

\* the path parameters of the GET requests: a planned day, a day nobody has
\* planned, and none
TaskParams == {[date |-> NextMonday], [date |-> NextMonday + 1], <<>>}

AssignBodies ==
    {[date |-> NextMonday, taskType |-> "kok", resident |-> "Anna"],
     [date |-> NextMonday, taskType |-> "vask", resident |-> "Anna"],
     [date |-> FooText, taskType |-> "kok", resident |-> "Anna"],
     [taskType |-> "opvask", resident |-> Null]}

KitchenPreferenceBodies == {[date |-> NextMonday, resident |-> "Anna"]}

DishOfTheDayBodies == {[date |-> FooText, dish |-> "Lasagna"]}

ResetBodies == {[date |-> EmptyText], [date |-> NumberValue]}

AddBodies == {[date |-> NextMonday, item |-> <<"a">>], [date |-> NextMonday]}

RemoveBodies == {[date |-> NextMonday, index |-> 0]}

UpdateBodies == {[items |-> << <<"a">> >>]}

RouteNext ==
    \/ InitMkdir
    \/ InitReadTasks
    \/ InitReadUsers
    \/ InitReadContent
    \/ \E s \in SaveIds : SaveWrite(s)
    \/ \E s \in SaveIds : SaveFail(s)
    \/ \E body \in AssignBodies : PostAssign(body) /\ UNCHANGED authVars
    \/ \E body \in KitchenPreferenceBodies : PostKitchenPreference(body) /\ UNCHANGED authVars
    \/ \E body \in DishOfTheDayBodies : PostDishOfTheDay(body) /\ UNCHANGED authVars
    \/ \E body \in ResetBodies : PostReset(body) /\ UNCHANGED authVars
    \/ \E body \in AddBodies : PostShoppingListAdd(body) /\ UNCHANGED authVars
    \/ \E body \in RemoveBodies : PostShoppingListRemove(body) /\ UNCHANGED authVars
    \/ \E body \in UpdateBodies : PostShoppingListUpdate(body) /\ UNCHANGED authVars
    \/ \E params \in TaskParams : GetTasks(params) /\ UNCHANGED authVars

RouteSpec == Init /\ [][RouteNext]_vars

----------------------------------------------------------------------------
(* The user map: upsertUser and the route that grants the admin role *)

\* process.env.ADMIN_EMAILS of the run
ADMIN_EMAILS == {"a@x"}

\* the payloads the logins build: basic login for a@x and b@x, and the OIDC
\* claims of u1, once with every claim and once with the names missing
UserPayloads ==
    {[id |-> e, email |-> e, firstName |-> "", lastName |-> "",
      profileImageUrl |-> Null, isAdmin |-> e \in ADMIN_EMAILS] :
        e \in {"a@x", "b@x"}}
    \cup
    {[id |-> "u1", email |-> "a@x", firstName |-> f,
      lastName |-> UndefinedText, profileImageUrl |-> UndefinedText] :
        f \in {"Ann", UndefinedText}}

\* new Date() of a call: the clock has not moved since the last call, or has
Clocks == {now, now + 1}

upsertUser(userData, clock) ==
    /\ CanCall
    /\ users' = upsertUserMap(users, nextId + 1, clock, userData)
    /\ nextId' = IF "id" \in DOMAIN userData /\ Truthy(userData.id)
                 THEN nextId ELSE nextId + 1
    /\ now' = clock
    /\ calls' = calls + 1
    /\ last' = [op |-> "upsertUser", date |-> 0, arg |-> userData,
                fresh |-> upsertUserId(nextId + 1, userData) \notin DOMAIN users]
    /\ returned' = Fulfilled("upsertUser",
                             users'[upsertUserId(nextId + 1, userData)])
    /\ UNCHANGED <<taskAssignments, appContent, fileVars, initPc, saves,
                   writeFailed>>

\* the users of the sessions that ask for the admin role
SessionUsers == {[id |-> "u1", email |-> "a@x"],
                 [id |-> "a@x", email |-> "a@x"],
                 [id |-> "b@x", email |-> "b@x"]}

Forbidden(route, body) ==
    [status |-> 403, body |-> "Not authorized to become admin",
     request |-> Request(route, body)]

NotFound(route, body) ==
    [status |-> 404, body |-> "User not found",
     request |-> Request(route, body)]

\* POST /api/admin/make-admin for the user of the session
PostMakeAdmin(sessionUser, clock) ==
    LET route == "POST /api/admin/make-admin"
        isDevelopment == env.NODE_ENV = "development"
        refused == ~isDevelopment /\ sessionUser.email \notin ADMIN_EMAILS
        missing == sessionUser.id \notin DOMAIN users
    IN  IF refused \/ missing
        THEN /\ CanCall
             /\ response' = IF refused THEN Forbidden(route, sessionUser)
                                       ELSE NotFound(route, sessionUser)
             /\ UNCHANGED <<mapVars, fileVars, initPc, saves, nextId, calls,
                            writeFailed, now, last, returned>>
        ELSE /\ upsertUser(Spread(users[sessionUser.id], [isAdmin |-> TRUE]),
                           clock)
             /\ response' = Json(route, sessionUser, returned'.value)

UserNext ==
    \/ InitMkdir
    \/ InitReadTasks
    \/ InitReadUsers
    \/ InitReadContent
    \/ \E s \in SaveIds : SaveWrite(s)
    \/ \E s \in SaveIds : SaveFail(s)
    \/ \E userData \in UserPayloads, clock \in Clocks :
          upsertUser(userData, clock) /\ UNCHANGED <<response, authVars>>
    \/ \E sessionUser \in SessionUsers, clock \in Clocks :
          PostMakeAdmin(sessionUser, clock) /\ UNCHANGED authVars

\* the state after construction when the earlier run had a user
UserInit ==
    /\ taskAssignments = EmptyMap
    /\ users = EmptyMap
    /\ appContent = EmptyMap
    /\ \/ /\ tasksFile = NoFile
          /\ usersFile = NoFile
          /\ contentFile = NoFile
       \/ /\ tasksFile = FileOf(EarlierTasks)
          /\ usersFile = FileOf(EarlierUsers)
          /\ contentFile = FileOf(EarlierContent)
    /\ initPc = "mkdir"
    /\ saves = [s \in SaveIds |-> Idle]
    /\ nextId = 0
    /\ calls = 0
    /\ writeFailed = FALSE
    /\ now = 0
    /\ last = NoCall
    /\ returned = NoPromise
    /\ response = NoResponse
    /\ session = NoSession
    /\ env = [AUTH_MODE |-> AUTH_MODE, NODE_ENV |-> NODE_ENV]

UserSpec == UserInit /\ [][UserNext]_vars

----------------------------------------------------------------------------
(* The content map: upsertAppContent, deleteAppContent, getAppContent *)

\* appContent.get(key): the record, or undefined
getAppContent(map, key) ==
    IF key \in DOMAIN map THEN map[key] ELSE Undefined

\* upsertAppContent that mints an id at every call
upsertAppContentMapNewId(map, uuid, clock, content) ==
    Put(map, content.key,
        [id |-> uuid,
         key |-> content.key,
         value |-> content.value,
         description |-> Coalesce(content, "description", Null),
         updatedAt |-> clock])

\* the map after upsertAppContent(content) at time clock; uuid is the id
\* randomUUID() returns if the key has no record
upsertAppContentMap(map, uuid, clock, content) ==
    Put(map, content.key,
        [id |-> IF content.key \in DOMAIN map
                THEN map[content.key].id ELSE uuid,
         key |-> content.key,
         value |-> content.value,
         description |-> Coalesce(content, "description", Null),
         updatedAt |-> clock])

\* the map after deleteAppContent(key); Map.delete returns whether the key
\* was there
deleteAppContentMap(map, key) == Remove(map, key)

\* the payloads of the admin's edits: the title twice, and a key of the
\* admin's own with a description
ContentPayloads ==
    {[key |-> "app.title", value |-> "Hej"],
     [key |-> "app.title", value |-> "Dav"],
     [key |-> "custom.note", value |-> "x", description |-> "d"]}

ContentKeys == {"app.title", "custom.note"}

upsertAppContent(content, clock) ==
    /\ CanCall
    /\ appContent' = upsertAppContentMap(appContent, nextId + 1, clock,
                                         content)
    /\ nextId' = IF content.key \in DOMAIN appContent
                 THEN nextId ELSE nextId + 1
    /\ now' = clock
    /\ calls' = calls + 1
    /\ last' = [op |-> "upsertAppContent", date |-> 0, arg |-> content,
                fresh |-> content.key \notin DOMAIN appContent]
    /\ returned' = Fulfilled("upsertAppContent", appContent'[content.key])
    /\ UNCHANGED <<taskAssignments, users, fileVars, initPc, saves,
                   writeFailed>>

deleteAppContent(key) ==
    /\ CanCall
    /\ appContent' = deleteAppContentMap(appContent, key)
    /\ calls' = calls + 1
    /\ last' = [op |-> "deleteAppContent", date |-> 0, arg |-> key,
                fresh |-> key \notin DOMAIN appContent]
    /\ returned' = Fulfilled("deleteAppContent", key \in DOMAIN appContent)
    /\ UNCHANGED <<taskAssignments, users, fileVars, initPc, saves, nextId,
                   writeFailed, now>>

ContentNext ==
    \/ InitMkdir
    \/ InitReadTasks
    \/ InitReadUsers
    \/ InitReadContent
    \/ \E s \in SaveIds : SaveWrite(s)
    \/ \E s \in SaveIds : SaveFail(s)
    \/ \E content \in ContentPayloads, clock \in Clocks :
          upsertAppContent(content, clock) /\ UNCHANGED <<response, authVars>>
    \/ \E key \in ContentKeys : deleteAppContent(key) /\ UNCHANGED <<response, authVars>>

ContentSpec == Init /\ [][ContentNext]_vars

----------------------------------------------------------------------------
(* Start-up over a tasks file that holds a day of the current week *)

\* what an earlier run of this week left on disk: today planned, and next
\* Monday
EarlierWeekTasks ==
    Put(EarlierTasks, Today,
        [id |-> -3, date |-> Today,
         tasks |-> Put(EmptyTasks, "opvask", "Anna"),
         aloneInKitchen |-> "Anna", dishOfTheDay |-> Null,
         shoppingList |-> << <<"b">> >>])

\* the dates the requests of this week name: today and tomorrow
WeekInputDates == {Today, Today + 1}

WeekInit ==
    /\ taskAssignments = EmptyMap
    /\ users = EmptyMap
    /\ appContent = EmptyMap
    /\ \/ /\ tasksFile = NoFile
          /\ usersFile = NoFile
          /\ contentFile = NoFile
       \/ /\ tasksFile = FileOf(EarlierWeekTasks)
          /\ usersFile = FileOf(EmptyMap)
          /\ contentFile = FileOf(EarlierContent)
    /\ initPc = "mkdir"
    /\ saves = [s \in SaveIds |-> Idle]
    /\ nextId = 0
    /\ calls = 0
    /\ writeFailed = FALSE
    /\ now = 0
    /\ last = NoCall
    /\ returned = NoPromise
    /\ response = NoResponse
    /\ session = NoSession
    /\ env = [AUTH_MODE |-> AUTH_MODE, NODE_ENV |-> NODE_ENV]

WeekNext ==
    \/ InitMkdir
    \/ InitReadTasks
    \/ InitReadUsers
    \/ InitReadContent
    \/ \E s \in SaveIds : SaveWrite(s)
    \/ \E s \in SaveIds : SaveFail(s)
    \/ \E d \in WeekInputDates, r \in Residents \cup {Null} :
          assignTask(d, "kok", r) /\ UNCHANGED <<response, authVars>>
    \/ \E d \in WeekInputDates, dish \in Dishes :
          setDishOfTheDay(d, dish) /\ UNCHANGED <<response, authVars>>
    \/ \E d \in WeekInputDates : resetTasks(d) /\ UNCHANGED <<response, authVars>>

WeekSpec == WeekInit /\ [][WeekNext]_vars

----------------------------------------------------------------------------
(* Calls of the mutators that overlap *)

\* A mutator reads its record inside its call (getTaskAssignmentByDate runs
\* to its return before the first await suspends the mutator) and writes it
\* in a later microtask.  A call made in a turn of its own has written before
\* any other turn runs, also when it goes on to wait for saveData.  Two calls
\* made in one turn have both read before the first of them writes.

\* the object each mutator builds from the record it read and passes to its
\* last createOrUpdateTaskAssignment
assignTaskPayload(existing, date, taskType, resident) ==
    [date |-> date, tasks |-> Put(existing.tasks, taskType, resident),
     aloneInKitchen |-> existing.aloneInKitchen,
     dishOfTheDay |-> existing.dishOfTheDay,
     shoppingList |-> existing.shoppingList]

setDishOfTheDayPayload(existing, date, dish) ==
    [date |-> date, tasks |-> existing.tasks,
     aloneInKitchen |-> existing.aloneInKitchen,
     dishOfTheDay |-> dish,
     shoppingList |-> existing.shoppingList]

addShoppingItemPayload(existing, date, item) ==
    [date |-> date, tasks |-> existing.tasks,
     aloneInKitchen |-> existing.aloneInKitchen,
     dishOfTheDay |-> existing.dishOfTheDay,
     shoppingList |-> existing.shoppingList \o <<Trim(item)>>]

\* the calls of a run: one date, an assignment, a dish and two items
OverlapRequests ==
    {[op |-> "assignTask", date |-> NextMonday, arg |-> <<"opvask", "Anna">>],
     [op |-> "setDishOfTheDay", date |-> NextMonday, arg |-> "Lasagna"],
     [op |-> "addShoppingItem", date |-> NextMonday, arg |-> <<"a">>],
     [op |-> "addShoppingItem", date |-> NextMonday,
      arg |-> <<" ", "b", " ">>]}

PayloadOf(request, existing) ==
    CASE request.op = "assignTask" ->
             assignTaskPayload(existing, request.date, request.arg[1],
                               request.arg[2])
      [] request.op = "setDishOfTheDay" ->
             setDishOfTheDayPayload(existing, request.date, request.arg)
      [] request.op = "addShoppingItem" ->
             addShoppingItemPayload(existing, request.date, request.arg)

\* the map after the call of request in a turn of its own
MapOf(request, map, uuid) ==
    CASE request.op = "assignTask" ->
             assignTaskMap(map, uuid, request.date, request.arg[1],
                           request.arg[2])
      [] request.op = "setDishOfTheDay" ->
             setDishOfTheDayMap(map, uuid, request.date, request.arg)
      [] request.op = "addShoppingItem" ->
             addShoppingItemMap(map, uuid, request.date, request.arg)

\* two calls of one turn that run one after the other
SameTurnMapSerial(map, uuid, first, second) ==
    MapOf(second, MapOf(first, map, uuid), uuid)

\* the map after two calls on one date made in one turn.  Both have read
\* the date's record when the microtasks start; where there is none, first
\* creates it and second's create merges the same defaults over it, so both
\* hold a record of the same content; then first writes, then second.
SameTurnMap(map, uuid, first, second) ==
    LET date     == first.date
        m1       == EnsureExisting(map, uuid, date)
        existing == m1[date]
        m2       == createOrUpdateTaskAssignment(m1, uuid,
                                                 PayloadOf(first, existing))
    IN  createOrUpdateTaskAssignment(m2, uuid, PayloadOf(second, existing))

\* a call in a turn of its own, which may come while an assignTask is
\* waiting for its saveData; a second assignTask waits for the first
OverlappedCall(request) ==
    /\ calls < MaxCalls
    /\ request.op = "assignTask" => saves["assignTask"].stage = "idle"
    /\ taskAssignments' = MapOf(request, taskAssignments, nextId + 1)
    /\ saves' = IF request.op = "assignTask"
                THEN [saves EXCEPT !["assignTask"] =
                         [stage |-> "tasks", data |-> taskAssignments']]
                ELSE saves
    /\ nextId' = Minted(request.date)
    /\ calls' = calls + 1
    /\ last' = Call(request.op, request.date, request.arg)
    /\ returned' = IF request.op = "assignTask"
                   THEN Pending(request.op, taskAssignments'[request.date])
                   ELSE Fulfilled(request.op, taskAssignments'[request.date])
    /\ UNCHANGED <<users, appContent, fileVars, initPc, writeFailed, now>>

\* two calls on one date in one turn, at most one of them an assignTask
SameTurnCalls(first, second) ==
    /\ calls + 2 <= MaxCalls
    /\ first.date = second.date
    /\ "assignTask" \notin {first.op, second.op}
          \/ /\ first.op # second.op
             /\ saves["assignTask"].stage = "idle"
    /\ taskAssignments' = SameTurnMap(taskAssignments, nextId + 1, first,
                                      second)
    /\ saves' = IF "assignTask" \in {first.op, second.op}
                THEN [saves EXCEPT !["assignTask"] =
                         [stage |-> "tasks", data |-> taskAssignments']]
                ELSE saves
    /\ nextId' = Minted(first.date)
    /\ calls' = calls + 2
    /\ last' = [op |-> second.op, date |-> second.date, arg |-> second.arg,
                fresh |-> second.date \notin DOMAIN taskAssignments,
                first |-> first]
    /\ returned' = IF second.op = "assignTask"
                   THEN Pending(second.op, taskAssignments'[second.date])
                   ELSE Fulfilled(second.op, taskAssignments'[second.date])
    /\ UNCHANGED <<users, appContent, fileVars, initPc, writeFailed, now>>

OverlapNext ==
    \/ InitMkdir
    \/ InitReadTasks
    \/ InitReadUsers
    \/ InitReadContent
    \/ \E s \in SaveIds : SaveWrite(s)
    \/ \E s \in SaveIds : SaveFail(s)
    \/ \E request \in OverlapRequests :
          OverlappedCall(request) /\ UNCHANGED <<response, authVars>>
    \/ \E first \in OverlapRequests, second \in OverlapRequests :
          SameTurnCalls(first, second) /\ UNCHANGED <<response, authVars>>

OverlapSpec == Init /\ [][OverlapNext]_vars

----------------------------------------------------------------------------
(* Sessions: the login routes, the two middlewares, the admin routes *)

MaxRequests == 3   \* admitted requests per run

\* the lifetime of a session (basic mode) and of an access token (claims.exp,
\* Replit mode), in ticks of the clock
SessionTtl == 1

\* Date.now() of a request: the clock has not moved since the last admitted
\* request, or has moved past the lifetime of a session
RequestClocks == {now, now + SessionTtl + 1}

Envs == [AUTH_MODE : {"basic", "replit"},
         NODE_ENV  : {"production", "development"}]

\* the bodies of POST /api/auth/basic/login
LoginBodies == {[email |-> e] : e \in {"a@x", "b@x", ""}}

\* tokens.claims() of the OIDC logins: one subject, whose account carries
\* a@x at one login and c@x at another
LoginClaims == {[sub |-> "u1", email |-> e, first_name |-> "Ann",
                 last_name |-> UndefinedText,
                 profile_image_url |-> UndefinedText] : e \in {"a@x", "c@x"}}

\* tokens.refresh_token of a login: none, or one
RefreshTokens == {Null, "r1"}

AdminRoutes == {"GET /api/admin/status", "GET /api/admin/content"}

Unauthorized(route, body) ==
    [status |-> 401, body |-> "Unauthorized", request |-> Request(route, body)]

SessionExpired(route, body) ==
    [status |-> 401, body |-> "Session expired",
     request |-> Request(route, body)]

AdminRequired(route, body) ==
    [status |-> 403, body |-> "Admin access required",
     request |-> Request(route, body)]

EmailRequired(route, body) ==
    [status |-> 400, body |-> "Email is required",
     request |-> Request(route, body)]

\* the object updateUserSession fills from a token response whose claims
\* expire SessionTtl after clock
updateUserSession(claims, refresh_token, clock) ==
    [kind |-> "replit", claims |-> claims, refresh_token |-> refresh_token,
     expires_at |-> clock + SessionTtl]

\* the isAuthenticated middleware for session s at time clock: "next", or
\* the body of its 401.  granted: client.refreshTokenGrant resolves.
isAuthenticated(mode, s, clock, granted) ==
    IF mode = "basic"
    THEN IF s.kind # "basic" \/ s.expires_at = 0 THEN "Unauthorized"
         ELSE IF clock <= s.expires_at THEN "next"
         ELSE "Session expired"
    ELSE IF s.kind # "replit" \/ s.expires_at = 0 THEN "Unauthorized"
         ELSE IF clock <= s.expires_at THEN "next"
         ELSE IF s.refresh_token = Null THEN "Unauthorized"
         ELSE IF granted THEN "next"
         ELSE "Unauthorized"

\* the session isAuthenticated leaves: the token response of a refresh
\* replaces the claims' expiry
AfterIsAuthenticated(mode, s, clock, granted) ==
    IF /\ mode = "replit" /\ s.kind = "replit" /\ s.expires_at # 0
       /\ clock > s.expires_at /\ s.refresh_token # Null /\ granted
    THEN updateUserSession(s.claims, s.refresh_token, clock)
    ELSE s

\* the isAdmin middleware for session s over the user map: 200 for next(),
\* or the status it answers
isAdmin(mode, s, map) ==
    IF mode = "basic"
    THEN IF s.kind # "basic" THEN 401
         ELSE IF ~s.isAdmin THEN 403
         ELSE 200
    ELSE IF s.kind # "replit" \/ ~Truthy(s.claims.sub) THEN 401
         ELSE IF s.claims.sub \notin DOMAIN map \/ ~map[s.claims.sub].isAdmin
              THEN 403
         ELSE 200

\* a request that passed its middleware at time clock
Admitted(clock) ==
    /\ calls < MaxRequests
    /\ now' = clock
    /\ calls' = calls + 1

\* a request answered by a middleware or an early return of its handler
Refused ==
    UNCHANGED <<mapVars, fileVars, initPc, saves, nextId, calls, writeFailed,
                now, last, returned, session, env>>

\* storage.upsertUser(userData) of a login or of the grant
StoreUser(userData, clock) ==
    /\ users' = upsertUserMap(users, nextId + 1, clock, userData)
    /\ last' = [op |-> "upsertUser", date |-> 0, arg |-> userData,
                fresh |-> upsertUserId(nextId + 1, userData) \notin DOMAIN users]
    /\ returned' = Fulfilled("upsertUser",
                             users'[upsertUserId(nextId + 1, userData)])
    /\ UNCHANGED <<taskAssignments, appContent, fileVars, initPc, saves,
                   nextId, writeFailed, env>>

\* POST /api/auth/basic/login
BasicLogin(body, clock) ==
    LET route == "POST /api/auth/basic/login"
        email == body.email
    IN  /\ env.AUTH_MODE = "basic"
        /\ IF ~Truthy(email)
           THEN /\ response' = EmailRequired(route, body)
                /\ Refused
           ELSE /\ Admitted(clock)
                /\ StoreUser([id |-> email, email |-> email, firstName |-> "",
                              lastName |-> "", profileImageUrl |-> Null,
                              isAdmin |-> email \in ADMIN_EMAILS], clock)
                /\ session' = [kind |-> "basic", id |-> email, email |-> email,
                               firstName |-> UndefinedText,
                               lastName |-> UndefinedText,
                               isAdmin |-> email \in ADMIN_EMAILS,
                               expires_at |-> clock + SessionTtl]
                /\ response' = Json(route, body, [success |-> TRUE])

\* GET /api/callback of an OIDC login: verify, then the session holds the
\* object verify built
ReplitLogin(claims, refresh_token, clock) ==
    /\ env.AUTH_MODE = "replit"
    /\ Admitted(clock)
    /\ StoreUser([id |-> claims.sub, email |-> claims.email,
                  firstName |-> claims.first_name,
                  lastName |-> claims.last_name,
                  profileImageUrl |-> claims.profile_image_url], clock)
    /\ session' = updateUserSession(claims, refresh_token, clock)
    /\ response' = [status |-> 302, body |-> "/",
                    request |-> Request("GET /api/callback", claims)]

\* POST /api/auth/basic/logout and GET /api/logout
Logout ==
    /\ session # NoSession
    /\ session' = NoSession
    /\ response' = Json("logout", <<>>, [success |-> TRUE])
    /\ UNCHANGED <<mapVars, fileVars, initPc, saves, nextId, calls,
                   writeFailed, now, last, returned, env>>

\* POST /api/admin/make-admin: isAuthenticated, then the handler
MakeAdmin(clock, granted) ==
    LET route == "POST /api/admin/make-admin"
        mode  == env.AUTH_MODE
        auth  == isAuthenticated(mode, session, clock, granted)
        user  == AfterIsAuthenticated(mode, session, clock, granted)
        userEmail == IF mode = "basic" THEN user.email ELSE user.claims.email
        userId    == IF mode = "basic" THEN user.id ELSE user.claims.sub
        isDevelopment == env.NODE_ENV = "development"
    IN  IF auth # "next"
        THEN /\ response' = [status |-> 401, body |-> auth,
                             request |-> Request(route, session)]
             /\ Refused
        ELSE IF ~isDevelopment /\ userEmail \notin ADMIN_EMAILS
        THEN /\ response' = Forbidden(route, session)
             /\ session' = user
             /\ UNCHANGED <<mapVars, fileVars, initPc, saves, nextId, calls,
                            writeFailed, now, last, returned, env>>
        ELSE IF userId \notin DOMAIN users
        THEN /\ response' = NotFound(route, session)
             /\ session' = user
             /\ UNCHANGED <<mapVars, fileVars, initPc, saves, nextId, calls,
                            writeFailed, now, last, returned, env>>
        ELSE /\ Admitted(clock)
             /\ StoreUser(Spread(users[userId], [isAdmin |-> TRUE]), clock)
             /\ session' = user
             /\ response' = Json(route, session,
                                 [message |-> "Admin access granted",
                                  user |-> returned'.value])

\* GET /api/admin/status and GET /api/admin/content: isAdmin, then the
\* handler
AdminRequest(route, clock) ==
    LET status == isAdmin(env.AUTH_MODE, session, users)
    IN  IF status = 401
        THEN /\ response' = Unauthorized(route, session)
             /\ Refused
        ELSE IF status = 403
        THEN /\ response' = AdminRequired(route, session)
             /\ Refused
        ELSE /\ Admitted(clock)
             /\ response' = Json(route, session,
                                 IF route = "GET /api/admin/status"
                                 THEN [message |-> "Admin access confirmed",
                                       isAdmin |-> TRUE]
                                 ELSE appContent)
             /\ UNCHANGED <<mapVars, fileVars, initPc, saves, nextId,
                            writeFailed, last, returned, session, env>>

AuthNext ==
    \/ InitMkdir
    \/ InitReadTasks
    \/ InitReadUsers
    \/ InitReadContent
    \/ SaveWrite("initializeStorage")
    \/ SaveFail("initializeStorage")
    \/ \E body \in LoginBodies, clock \in RequestClocks :
          BasicLogin(body, clock)
    \/ \E claims \in LoginClaims, refresh_token \in RefreshTokens,
          clock \in RequestClocks : ReplitLogin(claims, refresh_token, clock)
    \/ Logout
    \/ \E clock \in RequestClocks, granted \in BOOLEAN :
          MakeAdmin(clock, granted)
    \/ \E route \in AdminRoutes, clock \in RequestClocks :
          AdminRequest(route, clock)

\* the state after construction under any AUTH_MODE and NODE_ENV
AuthInit ==
    /\ taskAssignments = EmptyMap
    /\ users = EmptyMap
    /\ appContent = EmptyMap
    /\ \/ /\ tasksFile = NoFile
          /\ usersFile = NoFile
          /\ contentFile = NoFile
       \/ /\ tasksFile = FileOf(EarlierTasks)
          /\ usersFile = FileOf(EarlierUsers)
          /\ contentFile = FileOf(EarlierContent)
    /\ initPc = "mkdir"
    /\ saves = [s \in SaveIds |-> Idle]
    /\ nextId = 0
    /\ calls = 0
    /\ writeFailed = FALSE
    /\ now = 0
    /\ last = NoCall
    /\ returned = NoPromise
    /\ response = NoResponse
    /\ session = NoSession
    /\ env \in Envs

AuthSpec == AuthInit /\ [][AuthNext]_vars

----------------------------------------------------------------------------
(* Properties *)

MutatorOps == {"assignTask", "setAloneInKitchen", "setDishOfTheDay",
               "resetTasks", "addShoppingItem", "removeShoppingItem",
               "updateShoppingList"}

ShoppingOps == {"addShoppingItem", "removeShoppingItem", "updateShoppingList"}

\* this step is a call of mutator op
IsCall(op) == calls' = calls + 1 /\ last'.op = op

IsMutatorCall == calls' = calls + 1 /\ last'.op \in MutatorOps

Stored(date) == date \in DOMAIN taskAssignments

\* the record of the latest call's date
Rec == taskAssignments[last.date]

\* t is item without its leading and trailing whitespace
IsTrimOf(t, item) ==
    /\ t = <<>> \/ (t[1] \notin Whitespace /\ t[Len(t)] \notin Whitespace)
    /\ \E lead \in 0..Len(item) :
          /\ lead + Len(t) <= Len(item)
          /\ \A i \in 1..Len(item) :
                IF i > lead /\ i <= lead + Len(t)
                THEN item[i] = t[i - lead]
                ELSE item[i] \in Whitespace

\* C1: a mutator called on a date with no stored record stores a record for
\* that date in which every field the mutator does not target has its
\* default value.
C1_LazyCreation ==
    [][ (IsMutatorCall /\ last'.date \notin DOMAIN taskAssignments) =>
        LET op  == last'.op
            d   == last'.date
        IN  /\ d \in DOMAIN taskAssignments'
            /\ taskAssignments'[d].date = d
            /\ DOMAIN taskAssignments'[d].tasks = TaskTypes
            /\ \A t \in TaskTypes :
                  \/ op = "assignTask" /\ t = last'.arg[1]
                  \/ taskAssignments'[d].tasks[t] = Null
            /\ op # "setAloneInKitchen" =>
                  taskAssignments'[d].aloneInKitchen = Null
            /\ op # "setDishOfTheDay" =>
                  taskAssignments'[d].dishOfTheDay = Null
            /\ op \notin ShoppingOps =>
                  taskAssignments'[d].shoppingList = <<>>
      ]_vars

C1_Witness ==
    /\ last.op = "removeShoppingItem"
    /\ last.fresh
    /\ Stored(last.date)
    /\ Rec.shoppingList = <<>>
    /\ Rec.tasks = EmptyTasks

\* C2 as stated: once start-up is over, no saveData is running and no write
\* has failed, the three files hold the three maps.
C2_FilesMirrorMaps ==
    (/\ calls > 0
     /\ initPc = "done"
     /\ \A s \in SaveIds : saves[s].stage = "idle"
     /\ ~writeFailed)
    => /\ tasksFile = FileOf(taskAssignments)
       /\ usersFile = FileOf(users)
       /\ contentFile = FileOf(appContent)

\* C3 as stated: after a mutator called on a date has returned, no step of
\* the store other than a mutator changes or removes that date's record.
C3_NoInternalStepOverwrites ==
    [][ (/\ last.op \in MutatorOps
         /\ saves["assignTask"].stage = "idle"
         /\ calls' = calls) =>
        /\ last.date \in DOMAIN taskAssignments'
        /\ taskAssignments'[last.date] = taskAssignments[last.date]
      ]_vars

\* C4 as stated: the seeding of start-up leaves a default key that the
\* content file held with the value, description and id of the file.
C4_SeedOnlyIfAbsent ==
    [][ (initPc = "readContent" /\ initPc' # "readContent"
         /\ contentFile.exists) =>
        \A key \in DefaultKeys \cap DOMAIN contentFile.data :
            /\ appContent'[key].value = contentFile.data[key].value
            /\ appContent'[key].description = contentFile.data[key].description
            /\ appContent'[key].id = contentFile.data[key].id
      ]_vars

\* C5: assignTask(d, k, v) sets tasks[k] = v in d's record and leaves the
\* other three slots, aloneInKitchen, dishOfTheDay, shoppingList and id as
\* they were (the defaults when d had no record).
C5_AssignTaskFrame ==
    [][ IsCall("assignTask") =>
        LET d    == last'.date
            k    == last'.arg[1]
            v    == last'.arg[2]
            post == taskAssignments'[d]
        IN  /\ post.tasks[k] = v
            /\ DOMAIN post.tasks = TaskTypes
            /\ IF d \in DOMAIN taskAssignments
               THEN LET pre == taskAssignments[d]
                    IN  /\ \A t \in TaskTypes \ {k} :
                              post.tasks[t] = pre.tasks[t]
                        /\ post.aloneInKitchen = pre.aloneInKitchen
                        /\ post.dishOfTheDay = pre.dishOfTheDay
                        /\ post.shoppingList = pre.shoppingList
                        /\ post.id = pre.id
               ELSE /\ \A t \in TaskTypes \ {k} : post.tasks[t] = Null
                    /\ post.aloneInKitchen = Null
                    /\ post.dishOfTheDay = Null
                    /\ post.shoppingList = <<>>
      ]_vars

C5_Witness ==
    /\ last.op = "assignTask"
    /\ ~last.fresh
    /\ last.arg = <<"opvask", "Anna">>
    /\ Stored(last.date)
    /\ Rec.tasks["opvask"] = "Anna"
    /\ Rec.tasks["kok"] = "Anna"
    /\ Rec.dishOfTheDay = "Lasagna"
    /\ Rec.shoppingList # <<>>

\* the record of the end-to-end scenario before and after setDishOfTheDay
ScenarioAssigned(rec) ==
    /\ rec.tasks = Put(EmptyTasks, "kok", "Anna")
    /\ rec.aloneInKitchen = Null
    /\ rec.shoppingList = <<>>

\* C6: setAloneInKitchen changes only aloneInKitchen and setDishOfTheDay
\* only dishOfTheDay; after assignTask(d, kok, Anna) on an empty store,
\* setDishOfTheDay(d, Lasagna) leaves kok = Anna, the other slots null,
\* aloneInKitchen null, dishOfTheDay Lasagna and an empty shoppingList.
C6_SetFieldFrame ==
    [][ (IsCall("setAloneInKitchen") \/ IsCall("setDishOfTheDay")) =>
        LET d     == last'.date
            post  == taskAssignments'[d]
            alone == last'.op = "setAloneInKitchen"
        IN  /\ IF alone THEN post.aloneInKitchen = last'.arg
                        ELSE post.dishOfTheDay = last'.arg
            /\ IF d \in DOMAIN taskAssignments
               THEN LET pre == taskAssignments[d]
                    IN  /\ post.tasks = pre.tasks
                        /\ post.shoppingList = pre.shoppingList
                        /\ post.id = pre.id
                        /\ alone => post.dishOfTheDay = pre.dishOfTheDay
                        /\ ~alone => post.aloneInKitchen = pre.aloneInKitchen
                        /\ (~alone /\ last'.arg = "Lasagna"
                            /\ ScenarioAssigned(pre) /\ pre.dishOfTheDay = Null)
                           => (ScenarioAssigned(post)
                               /\ post.dishOfTheDay = "Lasagna")
               ELSE /\ post.tasks = EmptyTasks
                    /\ post.shoppingList = <<>>
                    /\ alone => post.dishOfTheDay = Null
                    /\ ~alone => post.aloneInKitchen = Null
      ]_vars

\* the scenario: the store held nothing but this record, minted by the
\* first of two calls
C6_Witness ==
    /\ last.op = "setDishOfTheDay"
    /\ last.arg = "Lasagna"
    /\ calls = 2
    /\ DOMAIN taskAssignments = {last.date}
    /\ Rec.id = 1
    /\ ScenarioAssigned(Rec)
    /\ Rec.dishOfTheDay = "Lasagna"

Canonical(rec, date) ==
    /\ rec.date = date
    /\ rec.tasks = EmptyTasks
    /\ rec.aloneInKitchen = Null
    /\ rec.dishOfTheDay = Null
    /\ rec.shoppingList = <<>>
    /\ DOMAIN rec = {"id", "date", "tasks", "aloneInKitchen", "dishOfTheDay",
                     "shoppingList"}

\* C7: resetTasks(d) leaves the canonical empty record for d, and a
\* resetTasks(d) on the record a resetTasks(d) left changes nothing.
C7_ResetCanonicalIdempotent ==
    [][ IsCall("resetTasks") =>
        LET d == last'.date
        IN  /\ d \in DOMAIN taskAssignments'
            /\ Canonical(taskAssignments'[d], d)
            /\ (d \in DOMAIN taskAssignments
                /\ Canonical(taskAssignments[d], d))
               => taskAssignments' = taskAssignments
      ]_vars

\* the record an earlier run had planned (id -1), emptied by resetTasks
C7_Witness ==
    /\ last.op = "resetTasks"
    /\ ~last.fresh
    /\ Stored(last.date)
    /\ Rec.id = -1
    /\ Canonical(Rec, last.date)

C9_NoEmptyItem ==
    \A d \in DOMAIN taskAssignments :
        \A i \in 1..Len(taskAssignments[d].shoppingList) :
            taskAssignments[d].shoppingList[i] # <<>>

\* C10: addShoppingItem(d, item) appends the trimmed item as the last
\* element, keeps the earlier elements in order and lengthens the list by
\* one, also when an equal item is in the list.
C10_AddAppendsTrimmed ==
    [][ IsCall("addShoppingItem") =>
        LET d    == last'.date
            old  == IF d \in DOMAIN taskAssignments
                    THEN taskAssignments[d].shoppingList ELSE <<>>
            new  == taskAssignments'[d].shoppingList
        IN  /\ Len(new) = Len(old) + 1
            /\ SubSeq(new, 1, Len(old)) = old
            /\ IsTrimOf(new[Len(new)], last'.arg)
      ]_vars

\* " b " added to a list that already ends with "b"
C10_Witness ==
    /\ last.op = "addShoppingItem"
    /\ last.arg = <<" ", "b", " ">>
    /\ Stored(last.date)
    /\ Len(Rec.shoppingList) >= 2
    /\ Rec.shoppingList[Len(Rec.shoppingList)] = <<"b">>
    /\ Rec.shoppingList[Len(Rec.shoppingList) - 1] = <<"b">>

\* C11: removeShoppingItem(d, i) with 0 <= i < length removes the element at
\* position i and keeps the others in order; with any other i (i >= length
\* or i < 0) it leaves the list and every other field of the record as they
\* were.
C11_RemoveByIndex ==
    [][ IsCall("removeShoppingItem") =>
        LET d    == last'.date
            i    == last'.arg
            had  == d \in DOMAIN taskAssignments
            old  == IF had THEN taskAssignments[d].shoppingList ELSE <<>>
            post == taskAssignments'[d]
            new  == post.shoppingList
        IN  /\ IF 0 <= i /\ i < Len(old)
               THEN /\ Len(new) = Len(old) - 1
                    /\ \A j \in 1..Len(new) :
                          new[j] = IF j <= i THEN old[j] ELSE old[j + 1]
               ELSE new = old
            /\ IF had
               THEN LET pre == taskAssignments[d]
                    IN  /\ post.tasks = pre.tasks
                        /\ post.aloneInKitchen = pre.aloneInKitchen
                        /\ post.dishOfTheDay = pre.dishOfTheDay
                        /\ post.id = pre.id
                        /\ post.date = pre.date
               ELSE Canonical(post, d)
      ]_vars

\* index 5 on a list of two items
C11_Witness ==
    /\ last.op = "removeShoppingItem"
    /\ last.arg = 5
    /\ ~last.fresh
    /\ Stored(last.date)
    /\ Len(Rec.shoppingList) = 2

\* every character of item is whitespace (the empty item included)
IsBlank(item) == \A c \in 1..Len(item) : item[c] \in Whitespace

\* C12: updateShoppingList(d, items) sets d's shoppingList to the items that
\* are not empty or whitespace-only, in their order and untrimmed, whatever
\* the list was before, and leaves tasks, aloneInKitchen and dishOfTheDay
\* as they were.
C12_UpdateFiltersBlank ==
    [][ IsCall("updateShoppingList") =>
        LET d     == last'.date
            items == last'.arg
            post  == taskAssignments'[d]
            new   == post.shoppingList
            keep  == {k \in 1..Len(items) : ~IsBlank(items[k])}
        IN  /\ Len(new) = Cardinality(keep)
            /\ \A k \in keep :
                  new[Cardinality({k2 \in keep : k2 <= k})] = items[k]
            /\ IF d \in DOMAIN taskAssignments
               THEN LET pre == taskAssignments[d]
                    IN  /\ post.tasks = pre.tasks
                        /\ post.aloneInKitchen = pre.aloneInKitchen
                        /\ post.dishOfTheDay = pre.dishOfTheDay
               ELSE /\ post.tasks = EmptyTasks
                    /\ post.aloneInKitchen = Null
                    /\ post.dishOfTheDay = Null
      ]_vars

\* [" ", " b ", "a"] replaces the list ["a"] of a planned day
C12_Witness ==
    /\ last.op = "updateShoppingList"
    /\ last.arg = << <<" ">>, <<" ", "b", " ">>, <<"a">> >>
    /\ ~last.fresh
    /\ Stored(last.date)
    /\ Rec.shoppingList = << <<" ", "b", " ">>, <<"a">> >>
    /\ Rec.dishOfTheDay = "Lasagna"
    /\ Rec.tasks["kok"] = "Anna"

\* C13: getTaskAssignmentsByDateRange(dates) returns one record per date, in
\* the order of dates, the i-th with date = dates[i]: the stored record
\* where there is one and a default record otherwise; it stores nothing, so
\* a date without a record has none after the read either.
C13_RangeRead ==
    [][ IsCall("getTaskAssignmentsByDateRange") =>
        LET dates  == last'.arg
            result == returned'.value
        IN  /\ returned'.status = "fulfilled"
            /\ Len(result) = Len(dates)
            /\ \A i \in 1..Len(dates) :
                  /\ result[i].date = dates[i]
                  /\ IF dates[i] \in DOMAIN taskAssignments
                     THEN result[i] = taskAssignments[dates[i]]
                     ELSE /\ Canonical(result[i], dates[i])
                          /\ getTaskAssignmentByDate(taskAssignments,
                                                     dates[i]) = Undefined
                          /\ getTaskAssignmentByDate(taskAssignments',
                                                     dates[i]) = Undefined
            /\ taskAssignments' = taskAssignments
      ]_vars

\* next week read when only its Monday has a record
C13_Witness ==
    /\ last.op = "getTaskAssignmentsByDateRange"
    /\ last.arg = getWeekDates(getCurrentWeekStart + 7)
    /\ returned.op = "getTaskAssignmentsByDateRange"
    /\ Len(returned.value) = 7
    /\ Stored(last.arg[1])
    /\ returned.value[1] = taskAssignments[last.arg[1]]
    /\ returned.value[1].dishOfTheDay = "Lasagna"
    /\ ~Stored(last.arg[2])
    /\ Canonical(returned.value[2], last.arg[2])

\* every stored record has the four task slots and no other
FourTaskKeys ==
    \A d \in DOMAIN taskAssignments : DOMAIN taskAssignments[d].tasks = TaskTypes

\* C14: whatever requests the routes serve, every stored record's tasks has
\* exactly the keys kok, indkoeb, bord, opvask; an assign request with
\* another taskType is answered 400 with no call of the store and no change
\* to it.
C14_FourTaskKeys ==
    [][ /\ FourTaskKeys'
        /\ (/\ response' # response
            /\ response'.request.route = "POST /api/tasks/assign"
            /\ response'.request.body.taskType \notin TaskTypes)
           => /\ response'.status = 400
              /\ calls' = calls
              /\ UNCHANGED <<mapVars, fileVars, saves, nextId, last, returned>>
      ]_vars

\* taskType "vask" refused while the day has its record
C14_Witness ==
    /\ response.status = 400
    /\ response.request.route = "POST /api/tasks/assign"
    /\ response.request.body.taskType = "vask"
    /\ response.request.body.date \in DOMAIN taskAssignments
    /\ calls > 0

\* C15 as stated: every key of the task-assignment map is a YYYY-MM-DD date.
C15_KeysAreDates ==
    \A d \in DOMAIN taskAssignments : IsYMD(d)

\* C16 as stated: a date that has a record has, in every later state, a
\* record with that date.
C16_NeverDeleted ==
    [][ \A d \in DOMAIN taskAssignments :
            /\ d \in DOMAIN taskAssignments'
            /\ taskAssignments'[d].date = d
      ]_vars

\* the fields of a record that a payload may omit
OptionalFields == {"aloneInKitchen", "dishOfTheDay", "shoppingList"}

\* C17: createOrUpdateTaskAssignment(p) on a date with a record stores the
\* record with each field of p replaced and every other field, id included,
\* kept; on a date without one it stores a record with an id no record has,
\* the fields of p, and null, null and the empty list for an omitted
\* aloneInKitchen, dishOfTheDay and shoppingList; it returns the stored
\* record.
C17_MergeOrCreate ==
    [][ IsCall("createOrUpdateTaskAssignment") =>
        LET p    == last'.arg
            d    == p.date
            post == taskAssignments'[d]
        IN  /\ returned'.status = "fulfilled"
            /\ returned'.value = post
            /\ \A f \in DOMAIN p : post[f] = p[f]
            /\ IF d \in DOMAIN taskAssignments
               THEN LET pre == taskAssignments[d]
                    IN  /\ DOMAIN post = DOMAIN pre \cup DOMAIN p
                        /\ \A f \in DOMAIN pre \ DOMAIN p : post[f] = pre[f]
                        /\ post.id = pre.id
               ELSE /\ DOMAIN post = {"id"} \cup DOMAIN p \cup OptionalFields
                    /\ \A e \in DOMAIN taskAssignments :
                          taskAssignments[e].id # post.id
                    /\ "aloneInKitchen" \notin DOMAIN p
                          => post.aloneInKitchen = Null
                    /\ "dishOfTheDay" \notin DOMAIN p
                          => post.dishOfTheDay = Null
                    /\ "shoppingList" \notin DOMAIN p
                          => post.shoppingList = <<>>
            /\ \A e \in DOMAIN taskAssignments \ {d} :
                  /\ e \in DOMAIN taskAssignments'
                  /\ taskAssignments'[e] = taskAssignments[e]
      ]_vars

\* date and tasks merged over the planned day: dish, list and id kept
C17_Witness ==
    /\ last.op = "createOrUpdateTaskAssignment"
    /\ DOMAIN last.arg = {"date", "tasks"}
    /\ ~last.fresh
    /\ Stored(last.date)
    /\ returned.value = Rec
    /\ Rec.id = -1
    /\ Rec.tasks = Put(EmptyTasks, "bord", "Anna")
    /\ Rec.dishOfTheDay = "Lasagna"
    /\ Rec.shoppingList = << <<"a">> >>

\* C18 as stated: when saveData ends after a failed write during assignTask,
\* assignTask returns the updated record with no error and the record of
\* the date in memory holds the new assignment.
C18_FailureInvisible ==
    [][ (/\ saves["assignTask"].stage # "idle"
         /\ saves'["assignTask"].stage = "idle"
         /\ writeFailed') =>
        LET d == last.date
            k == last.arg[1]
            v == last.arg[2]
        IN  /\ returned'.op = "assignTask"
            /\ returned'.status = "fulfilled"
            /\ returned'.value.date = d
            /\ returned'.value.tasks[k] = v
            /\ d \in DOMAIN taskAssignments'
            /\ taskAssignments'[d].tasks[k] = v
      ]_vars

\* C19 as stated: assignTask delivers its updated record without waiting
\* for the file writes of saveData.
C19_ResultBeforeWrites ==
    [][ IsCall("assignTask") => returned'.status = "fulfilled" ]_vars

TextFields == {"id", "email", "firstName", "lastName", "profileImageUrl"}

\* C21 as stated: upsertUser on an id that has a record keeps every field
\* for which the payload supplies no value (the field is absent from the
\* payload, or present and undefined as a claim the login did not carry);
\* only supplied fields and updatedAt change.  A field that had no value
\* and has none afterwards counts as kept.
C21_MergeKeepsUnsupplied ==
    [][ (IsCall("upsertUser") /\ ~last'.fresh) =>
        LET p        == last'.arg
            id       == returned'.value.id
            pre      == users[id]
            post     == users'[id]
            supplied == {f \in DOMAIN p :
                            f \in TextFields => p[f] # UndefinedText}
        IN  /\ DOMAIN post = DOMAIN pre
            /\ \A f \in DOMAIN pre \ (supplied \cup {"updatedAt"}) :
                  \/ post[f] = pre[f]
                  \/ /\ f \in TextFields
                     /\ {post[f], pre[f]} \subseteq {Null, UndefinedText}
      ]_vars

\* C22 as stated: no two user records with different ids have the same
\* email, unless they have none.
C22_EmailUnique ==
    \A a \in DOMAIN users : \A b \in DOMAIN users :
        (a # b /\ users[a].email \notin {Null, UndefinedText})
            => users[a].email # users[b].email

CurrentWeek ==
    {d \in (Today - 6)..(Today + 6) :
        \E monday \in (Today - 6)..Today :
            /\ DayOfWeek(monday) = 1
            /\ monday <= d
            /\ d < monday + 7}

\* C24: from the end of the start-up step that pre-populates the week, each
\* of the seven dates of the current Monday-start week has a record; that
\* step gives a date without a record the empty default record and leaves
\* the record of a date that has one as it is, so that a start-up no request
\* interferes with keeps the records of the loaded file.
C24_WeekPrepopulated ==
    [][ /\ initPc' \in {"saving", "done"} =>
            \A d \in CurrentWeek : d \in DOMAIN taskAssignments'
        /\ (initPc = "readContent" /\ initPc' = "saving") =>
            /\ \A d \in CurrentWeek :
                  IF d \in DOMAIN taskAssignments
                  THEN taskAssignments'[d] = taskAssignments[d]
                  ELSE /\ Canonical(taskAssignments'[d], d)
                       /\ taskAssignments'[d].id > nextId
            /\ \A d \in DOMAIN taskAssignments' \ CurrentWeek :
                  /\ d \in DOMAIN taskAssignments
                  /\ taskAssignments'[d] = taskAssignments[d]
            /\ (calls = 0 /\ tasksFile.exists) =>
                  \A d \in CurrentWeek \cap DOMAIN tasksFile.data :
                      taskAssignments'[d] = tasksFile.data[d]
      ]_vars

\* start-up has finished with no call made: today has the record of the
\* file, tomorrow an empty one minted in this run
C24_Witness ==
    /\ initPc = "done"
    /\ calls = 0
    /\ Cardinality(CurrentWeek) = 7
    /\ CurrentWeek \subseteq DOMAIN taskAssignments
    /\ taskAssignments[Today].id = -3
    /\ taskAssignments[Today].tasks["opvask"] = "Anna"
    /\ taskAssignments[Today].shoppingList = << <<"b">> >>
    /\ Canonical(taskAssignments[Today + 1], Today + 1)
    /\ taskAssignments[Today + 1].id > 0

\* the fields of the default-empty record
DefaultShape == {"date", "tasks", "aloneInKitchen", "dishOfTheDay",
                 "shoppingList"}

\* C25 as stated: for a date without a record, GET /api/tasks/:date answers
\* with the fields and values of the record getTaskAssignmentsByDateRange
\* synthesizes for that date (date, four null slots, aloneInKitchen null,
\* dishOfTheDay null, shoppingList empty) and stores nothing.
C25_GetDefaultShape ==
    [][ (IsCall("getTaskAssignmentByDate") /\ last'.fresh) =>
        LET d     == last'.date
            synth == getTaskAssignmentsByDateRange(taskAssignments, nextId,
                                                   <<d>>)[1]
            body  == response'.body
        IN  /\ response'.status = 200
            /\ DefaultShape \subseteq DOMAIN body
            /\ \A f \in DefaultShape \cap DOMAIN body : body[f] = synth[f]
            /\ taskAssignments' = taskAssignments
      ]_vars

\* C27 as stated.  While two saveData runs are in flight and both have
\* written tasks.json, neither writes it again and no call has been made
\* since the later one started, so the file has to hold the map already;
\* likewise users.json once both have written it; and when the runs have
\* ended after an assignTask, all three files hold their maps.
C27_LatestSnapshot ==
    /\ (/\ ~writeFailed
        /\ \A s \in SaveIds : saves[s].stage \in {"users", "content"})
       => tasksFile = FileOf(taskAssignments)
    /\ (/\ ~writeFailed
        /\ \A s \in SaveIds : saves[s].stage = "content")
       => usersFile = FileOf(users)
    /\ (/\ ~writeFailed
        /\ \A s \in SaveIds : saves[s].stage = "idle"
        /\ initPc = "done"
        /\ last.op = "assignTask")
       => /\ tasksFile = FileOf(taskAssignments)
          /\ usersFile = FileOf(users)
          /\ contentFile = FileOf(appContent)

\* this step is two calls made in one turn
IsSameTurn == calls' = calls + 2

IsGrant ==
    /\ calls' = calls + 1
    /\ response'.request.route = "POST /api/admin/make-admin"
    /\ response'.status = 200

\* C28: once POST /api/admin/make-admin has answered "Admin access granted"
\* for a session, the isAdmin middleware of the admin-only routes admits
\* that session, in basic mode and in Replit mode.
C28_GrantedSessionAdmitted ==
    [][ IsGrant => isAdmin(env.AUTH_MODE, session', users') = 200 ]_vars

\* the step in which an admin-only route answers a request it admitted
IsAdminAnswer ==
    /\ calls' = calls + 1
    /\ response'.request.route \in AdminRoutes
    /\ response'.status = 200

\* C29: a request the isAdmin middleware admits is one isAuthenticated
\* admits at that time: the session has not expired, or a refresh of its
\* token can succeed.
C29_AdminAtLeastAsStrict ==
    [][ IsAdminAnswer =>
            \E granted \in BOOLEAN :
                isAuthenticated(env.AUTH_MODE, session, now', granted) = "next"
      ]_vars

\* C30: outside NODE_ENV = development every user record whose isAdmin is
\* true has an email listed in ADMIN_EMAILS.
C30_AdminsAuthorized ==
    env.NODE_ENV # "development" =>
        \A id \in DOMAIN users :
            users[id].isAdmin => users[id].email \in ADMIN_EMAILS

====
